---- MODULE Spec2Model ----
(***************************************************************************)
(* curl-mcp-server: the curl-command parser (curl-parser.ts), the request  *)
(* executor (http-client.ts) and the CallTool handler (server.ts).         *)
(*                                                                         *)
(* Strings are sequences of one-character strings, so that the regular     *)
(* expressions, case conversion, JSON rendering and UTF-8 sizing of the    *)
(* source are computed character by character.  An optional (possibly      *)
(* undefined) field f is the record [has |-> BOOLEAN, v |-> value].        *)
(* The wall-clock field `duration` of a response is not modelled.          *)
(***************************************************************************)
EXTENDS FiniteSets, Integers, Sequences, TLC

VARIABLES
  pc,           \* "idle" | "awaiting" (inside `await axios(...)`) | "done"
  call,         \* the CallTool request: [name, args]
  parsed,       \* what parseCurlCommand returned or threw, once it has run
  config,       \* the HttpRequestConfig handed to executeRequest
  axiosConfig,  \* the outgoing request built by executeRequest
  transport,    \* how axios settled the request: resolved or rejected, and with what
  response,     \* what executeRequest returned (or a propagated exception)
  toolResult,   \* what the CallTool handler returned
  execCalls     \* number of times executeRequest was invoked for this call

vars == <<pc, call, parsed, config, axiosConfig, transport, response, toolResult, execCalls>>

---------------------------------------------------------------------------
(* Bounds *)

\* Largest number of option/URL fragments following the command word.
MaxFrags == 3

---------------------------------------------------------------------------
(* Optional values and small helpers *)

Absent == [has |-> FALSE, v |-> <<>>]
Some(x) == [has |-> TRUE, v |-> x]
None == [kind |-> "none"]

\* JavaScript truthiness of an optional string: defined and non-empty.
Truthy(o) == o.has /\ o.v # <<>>

MinOf(S) == CHOOSE x \in S : \A y \in S : x <= y
MaxOf(S) == CHOOSE x \in S : \A y \in S : x >= y

EmptyMap == [k \in {} |-> <<>>]
Put(h, k, val) == [x \in (DOMAIN h) \cup {k} |-> IF x = k THEN val ELSE h[x]]

RECURSIVE Flatten(_)
Flatten(ss) == IF ss = <<>> THEN <<>> ELSE Head(ss) \o Flatten(Tail(ss))

---------------------------------------------------------------------------
(* Characters *)

UpperLetters == <<"A","B","C","D","E","F","G","H","I","J","K","L","M",
                  "N","O","P","Q","R","S","T","U","V","W","X","Y","Z">>
LowerLetters == <<"a","b","c","d","e","f","g","h","i","j","k","l","m",
                  "n","o","p","q","r","s","t","u","v","w","x","y","z">>
UpperSet == {UpperLetters[i] : i \in 1..26}
LowerSet == {LowerLetters[i] : i \in 1..26}
Letters == UpperSet \cup LowerSet
ToLowerMap == [c \in UpperSet |-> LowerLetters[CHOOSE i \in 1..26 : UpperLetters[i] = c]]
ToUpperMap == [c \in LowerSet |-> UpperLetters[CHOOSE i \in 1..26 : LowerLetters[i] = c]]
LowerCh(c) == IF c \in UpperSet THEN ToLowerMap[c] ELSE c
UpperCh(c) == IF c \in LowerSet THEN ToUpperMap[c] ELSE c

\* \s of the regular expressions / String.prototype.trim
WS == {" ", "\t", "\n", "\r"}
SQ == "'"
DQ == "\""
Quotes == {SQ, DQ}

toLowerCase(s) == [i \in 1..Len(s) |-> LowerCh(s[i])]
toUpperCase(s) == [i \in 1..Len(s) |-> UpperCh(s[i])]
startsWith(s, p) == Len(s) >= Len(p) /\ SubSeq(s, 1, Len(p)) = p

trim(s) ==
  LET keep == {i \in 1..Len(s) : s[i] \notin WS}
  IN  IF keep = {} THEN <<>> ELSE SubSeq(s, MinOf(keep), MaxOf(keep))

\* String.prototype.indexOf for one character, 0-based; -1 when absent.
indexOf(s, c) ==
  LET at == {i \in 1..Len(s) : s[i] = c}
  IN  IF at = {} THEN -1 ELSE MinOf(at) - 1

\* substring(from) / substring(from, to), 0-based as in JavaScript.
substring(s, from, to) == SubSeq(s, from + 1, to)
substringFrom(s, from) == SubSeq(s, from + 1, Len(s))

---------------------------------------------------------------------------
(* Regular-expression primitives *)

\* The literal `lit` (given in lower case) stands at position i of s,
\* compared case-insensitively (every pattern of the parser has flag i).
MatchCI(s, i, lit) ==
  /\ i >= 1
  /\ i + Len(lit) - 1 <= Len(s)
  /\ \A k \in 1..Len(lit) : LowerCh(s[i + k - 1]) = lit[k]

\* Last index of the longest run, starting at i, of characters outside
\* (RunNotIn) or inside (RunIn) a class; i - 1 when the run is empty.
RunNotIn(s, i, excl) ==
  LET stops == {j \in i..Len(s) : s[j] \in excl}
  IN  IF stops = {} THEN Len(s) ELSE MinOf(stops) - 1
RunIn(s, i, cls) ==
  LET stops == {j \in i..Len(s) : s[j] \notin cls}
  IN  IF stops = {} THEN Len(s) ELSE MinOf(stops) - 1

NoMatch == [found |-> FALSE, value |-> <<>>, end |-> 0]
Match(val, e) == [found |-> TRUE, value |-> val, end |-> e]

\* -(?:a|b|...)\s+ at position i: the index following the white space,
\* or 0 when the flag does not stand at i.
AfterFlag(s, i, alts) ==
  LET ends == {i + 1 + Len(a) : a \in {b \in alts : MatchCI(s, i + 1, b)}}
      ok   == {j \in ends : j <= Len(s) /\ s[j] \in WS}
  IN  IF i > Len(s) \/ s[i] # "-" \/ ok = {} THEN 0
      ELSE RunIn(s, MinOf(ok), WS) + 1

\* (['"])([^']+)\1 at position k: a mandatory quote, the longest run of
\* characters other than ', backtracked to the last closing quote in it.
QuotedArg(s, k) ==
  IF k < 1 \/ k > Len(s) \/ s[k] \notin Quotes THEN NoMatch
  ELSE LET r == RunNotIn(s, k + 1, {SQ})
       IN  IF s[k] = SQ
           THEN IF r >= k + 1 /\ r + 1 <= Len(s)
                THEN Match(SubSeq(s, k + 1, r), r + 1) ELSE NoMatch
           ELSE LET closers == {c \in (k + 2)..r : s[c] = DQ}
                IN  IF closers = {} THEN NoMatch
                    ELSE Match(SubSeq(s, k + 1, MaxOf(closers) - 1), MaxOf(closers))

\* (['"]?)([^'\s]+)\1 at position k: an optional quote, a run of characters
\* other than ' and white space, and the same quote again.
OptQuotedToken(s, k) ==
  LET excl == WS \cup {SQ}
  IN  IF k < 1 \/ k > Len(s) THEN NoMatch
      ELSE IF s[k] = SQ
      THEN LET r == RunNotIn(s, k + 1, excl)
           IN  IF r >= k + 1 /\ r + 1 <= Len(s) /\ s[r + 1] = SQ
               THEN Match(SubSeq(s, k + 1, r), r + 1) ELSE NoMatch
      ELSE LET bare == RunNotIn(s, k, excl)
               r == RunNotIn(s, k + 1, excl)
               closers == {c \in (k + 2)..r : s[c] = DQ}
           IN  IF s[k] = DQ /\ closers # {}
               THEN Match(SubSeq(s, k + 1, MaxOf(closers) - 1), MaxOf(closers))
               ELSE IF bare >= k THEN Match(SubSeq(s, k, bare), bare)
               ELSE NoMatch

---------------------------------------------------------------------------
(* curl-parser.ts: parseCurlCommand *)

\* curl
S_curl == <<"c","u","r","l">>
\* Invalid curl command: Must start with "curl"
E_InvalidCommand == <<"I","n","v","a","l","i","d"," ","c","u","r","l"," ","c","o","m","m","a","n","d",":"," ","M","u","s","t"," ","s","t","a","r","t"," ","w","i","t","h"," ","\"","c","u","r","l","\"">>
\* Could not find URL in curl command
E_MissingUrl == <<"C","o","u","l","d"," ","n","o","t"," ","f","i","n","d"," ","U","R","L"," ","i","n"," ","c","u","r","l"," ","c","o","m","m","a","n","d">>
\* authorization
S_authorization == <<"a","u","t","h","o","r","i","z","a","t","i","o","n">>
\* bearer 
S_bearer_sp == <<"b","e","a","r","e","r"," ">>
\* GET
M_GET == <<"G","E","T">>
\* POST
M_POST == <<"P","O","S","T">>
\* PUT
M_PUT == <<"P","U","T">>
\* PATCH
M_PATCH == <<"P","A","T","C","H">>
\* DELETE
M_DELETE == <<"D","E","L","E","T","E">>
\* HEAD
M_HEAD == <<"H","E","A","D">>
\* OPTIONS
M_OPTIONS == <<"O","P","T","I","O","N","S">>
DefaultTimeout == 30000

\* [^\s"'\$] of urlRegex: the characters that end a URL.
UrlStop == WS \cup {DQ, SQ, "$"}

\* https?:\/\/[^\s"'\$]+ standing at position p, whatever precedes it.
UrlPatternAt(s, p) ==
  LET rest == IF MatchCI(s, p, <<"h","t","t","p","s",":","/","/">>) THEN p + 8
              ELSE IF MatchCI(s, p, <<"h","t","t","p",":","/","/">>) THEN p + 7 ELSE 0
      e == RunNotIn(s, rest, UrlStop)
  IN  IF rest > 0 /\ e >= rest THEN Match(SubSeq(s, p, e), e) ELSE NoMatch

\* urlRegex = /(?:^|\s)(https?:\/\/[^\s"'\$]+)/i with the scheme at p.
urlRegexAt(s, p) ==
  IF p = 1 \/ (p > 1 /\ s[p - 1] \in WS) THEN UrlPatternAt(s, p) ELSE NoMatch

\* trimmed.match(urlRegex): the leftmost match.
urlRegex(s) ==
  LET hits == {i \in 1..Len(s) : urlRegexAt(s, i).found}
  IN  IF hits = {} THEN NoMatch ELSE urlRegexAt(s, MinOf(hits))

\* methodRegex = /-(?:X|request)\s+(['"]?)([A-Z]+)\1/i at position i.
methodRegexAt(s, i) ==
  LET k == AfterFlag(s, i, {<<"x">>, <<"r","e","q","u","e","s","t">>})
  IN  IF k = 0 \/ k > Len(s) THEN NoMatch
      ELSE IF s[k] \in Quotes
      THEN LET e == RunIn(s, k + 1, Letters)
           IN  IF e >= k + 1 /\ e + 1 <= Len(s) /\ s[e + 1] = s[k]
               THEN Match(SubSeq(s, k + 1, e), e + 1) ELSE NoMatch
      ELSE LET e == RunIn(s, k, Letters)
           IN  IF e >= k THEN Match(SubSeq(s, k, e), e) ELSE NoMatch

\* trimmed.match(methodRegex): the leftmost match.
methodRegex(s) ==
  LET hits == {i \in 1..Len(s) : methodRegexAt(s, i).found}
  IN  IF hits = {} THEN NoMatch ELSE methodRegexAt(s, MinOf(hits))

\* headerRegex = /-(?:H|header)\s+(['"])([^']+)\1/gi at position i.
headerRegexAt(s, i) == QuotedArg(s, AfterFlag(s, i, {<<"h">>, <<"h","e","a","d","e","r">>}))

\* headerRegex.exec(trimmed) with lastIndex = from - 1.
headerRegexExec(s, from) ==
  LET hits == {i \in from..Len(s) : headerRegexAt(s, i).found}
  IN  IF hits = {} THEN NoMatch ELSE headerRegexAt(s, MinOf(hits))

\* dataRegex = /--data(?:-ascii|-binary|-urlencode)?\s+(['"])([^']+)\1
\*             |-(?:d|data)\s+(['"]?)([^'\s]+)\3/gi at position i.
dataRegexAt(s, i) ==
  LET alt1 == QuotedArg(s, AfterFlag(s, i, {<<"-","d","a","t","a">>, <<"-","d","a","t","a","-","a","s","c","i","i">>,
                                            <<"-","d","a","t","a","-","b","i","n","a","r","y">>, <<"-","d","a","t","a","-","u","r","l","e","n","c","o","d","e">>}))
  IN  IF alt1.found THEN alt1
      ELSE OptQuotedToken(s, AfterFlag(s, i, {<<"d">>, <<"d","a","t","a">>}))

\* dataRegex.exec(trimmed): the first match; its value is never empty, so the loop stops there.
dataRegexExec(s) ==
  LET hits == {i \in 1..Len(s) : dataRegexAt(s, i).found}
  IN  IF hits = {} THEN NoMatch ELSE dataRegexAt(s, MinOf(hits))

\* authRegex = /-(?:u|user)\s+(['"]?)([^'\s]+)\1/i at position i.
authRegexAt(s, i) == OptQuotedToken(s, AfterFlag(s, i, {<<"u">>, <<"u","s","e","r">>}))

\* trimmed.match(authRegex): the leftmost match.
authRegex(s) ==
  LET hits == {i \in 1..Len(s) : authRegexAt(s, i).found}
  IN  IF hits = {} THEN NoMatch ELSE authRegexAt(s, MinOf(hits))

\* .replace(/\\n/g, '\n').replace(/\\t/g, '\t').replace(/\\r/g, '\r')
RECURSIVE unescape(_)
unescape(s) ==
  IF Len(s) < 2 THEN s
  ELSE IF s[1] = "\\" /\ s[2] \in {"n", "t", "r"}
  THEN <<CASE s[2] = "n" -> "\n" [] s[2] = "t" -> "\t" [] OTHER -> "\r">>
       \o unescape(SubSeq(s, 3, Len(s)))
  ELSE <<s[1]>> \o unescape(Tail(s))

BasicAuth(u, p) == [type |-> "basic", username |-> Some(u), password |-> Some(p), token |-> Absent]
BearerAuth(t) == [type |-> "bearer", username |-> Absent, password |-> Absent, token |-> Some(t)]

\* One iteration of the header loop: parsed.headers[key] = value, and the
\* implicit bearer auth of an Authorization header.
headerStep(acc, headerLine) ==
  LET colonIndex == indexOf(headerLine, ":")
      key   == trim(substring(headerLine, 0, colonIndex))
      value == trim(substringFrom(headerLine, colonIndex + 1))
  IN  IF colonIndex > 0
      THEN [headers |-> Put(acc.headers, key, value),
            auth |-> IF toLowerCase(key) = S_authorization
                        /\ startsWith(toLowerCase(value), S_bearer_sp)
                     THEN Some(BearerAuth(substringFrom(value, 7)))
                     ELSE acc.auth]
      ELSE acc

\* while ((headerMatch = headerRegex.exec(trimmed)) !== null) { ... }
RECURSIVE headerLoop(_, _, _)
headerLoop(s, from, acc) ==
  LET m == headerRegexExec(s, from)
  IN  IF m.found THEN headerLoop(s, m.end + 1, headerStep(acc, m.value)) ELSE acc

\* The basic-auth pass: overwrites auth whenever authRegex matches.
basicAuthStep(auth, authMatch) ==
  LET credentials == authMatch.value
      colonIndex == indexOf(credentials, ":")
  IN  IF ~authMatch.found THEN auth
      ELSE IF colonIndex > 0
      THEN Some(BasicAuth(substring(credentials, 0, colonIndex),
                          substringFrom(credentials, colonIndex + 1)))
      ELSE Some(BasicAuth(credentials, <<>>))

\* Mutant of methodStep: data forces POST even with an explicit -X.
methodStepBodyWins(methodMatch, body) ==
  IF body # <<>> THEN M_POST
  ELSE IF methodMatch.found THEN toUpperCase(methodMatch.value) ELSE M_GET

\* parsed.method after the method pass and the body pass.
methodStep(methodMatch, body) ==
  IF methodMatch.found THEN toUpperCase(methodMatch.value)
  ELSE IF body # <<>> THEN M_POST ELSE M_GET

Threw(msg) == [kind |-> "threw", message |-> msg]
Returned(x) == [kind |-> "returned", value |-> x]

parseCurlCommand(curlCommand) ==
  LET trimmed     == trim(curlCommand)
      urlMatch    == urlRegex(trimmed)
      methodMatch == methodRegex(trimmed)
      scanned     == headerLoop(trimmed, 1, [headers |-> EmptyMap, auth |-> Absent])
      dataMatch   == dataRegexExec(trimmed)
      body        == IF dataMatch.found THEN unescape(dataMatch.value) ELSE <<>>
      authMatch   == authRegex(trimmed)
  IN  IF ~startsWith(toLowerCase(trimmed), S_curl) THEN Threw(E_InvalidCommand)
      ELSE IF ~urlMatch.found THEN Threw(E_MissingUrl)
      ELSE Returned([url |-> urlMatch.value,
                     method |-> methodStep(methodMatch, body),
                     headers |-> Some(scanned.headers),
                     body |-> IF body # <<>> THEN Some(body) ELSE Absent,
                     auth |-> basicAuthStep(scanned.auth, authMatch),
                     timeout |-> DefaultTimeout,
                     followRedirects |-> TRUE])

---------------------------------------------------------------------------
(* Command strings given to the parser *)

CommandWords == {<<"c","u","r","l">>, <<" ","C","u","r","l">>, <<"w","g","e","t">>}

Fragments == {
  <<" ","h","t","t","p","s",":","/","/","a",".","i","o","/","x">>,
  <<" ","\"","h","t","t","p",":","/","/","b",".","i","o","\"">>,
  <<" ","-","X"," ","p","u","t">>,
  <<" ","-","-","r","e","q","u","e","s","t"," ","'","D","E","L","E","T","E","'">>,
  <<" ","-","X"," ","P","U","R","G","E">>,
  <<" ","-","d"," ","x","=","1">>,
  <<" ","-","-","d","a","t","a"," ","'","{","\"","a","\"",":","1","}","'">>,
  <<" ","-","H"," ","'","A","u","t","h","o","r","i","z","a","t","i","o","n",":"," ","B","e","a","r","e","r"," ","t","1","'">>,
  <<" ","-","H"," ","\"","a","u","t","h","o","r","i","z","a","t","i","o","n",":"," ","b","e","a","r","e","r"," ","t","2","\"">>,
  <<" ","-","H"," ","\"","A","c","c","e","p","t",":"," ","*","/","*","\"">>,
  <<" ","-","u"," ","a","l",":","p","w">>,
  <<" ","-","-","u","s","e","r"," ","\"","b","o","b","\"">> }

RECURSIVE FragSeqs(_)
FragSeqs(n) ==
  IF n = 0 THEN {<<>>}
  ELSE LET shorter == FragSeqs(n - 1)
       IN  shorter \cup {Append(fs, f) : fs \in {x \in shorter : Len(x) = n - 1}, f \in Fragments}

Commands == {w \o Flatten(fs) : w \in CommandWords, fs \in FragSeqs(MaxFrags)}

---------------------------------------------------------------------------
(* http-client.ts: HttpClient *)

\* Content-Type
S_ContentType == <<"C","o","n","t","e","n","t","-","T","y","p","e">>
\* application/json
S_ApplicationJson == <<"a","p","p","l","i","c","a","t","i","o","n","/","j","s","o","n">>
\* Authorization
S_Authorization == <<"A","u","t","h","o","r","i","z","a","t","i","o","n">>
\* Bearer 
S_Bearer_sp == <<"B","e","a","r","e","r"," ">>
\* HTTP 
S_HTTP_sp == <<"H","T","T","P"," ">>
\* No Response
S_NoResponse == <<"N","o"," ","R","e","s","p","o","n","s","e">>
\* No response received from server
S_NoResponseMsg == <<"N","o"," ","r","e","s","p","o","n","s","e"," ","r","e","c","e","i","v","e","d"," ","f","r","o","m"," ","s","e","r","v","e","r">>
\* Request Error
S_RequestError == <<"R","e","q","u","e","s","t"," ","E","r","r","o","r">>
\* Unknown Error
S_UnknownError == <<"U","n","k","n","o","w","n"," ","E","r","r","o","r">>
\* Unknown error occurred
S_UnknownErrorMsg == <<"U","n","k","n","o","w","n"," ","e","r","r","o","r"," ","o","c","c","u","r","r","e","d">>
MaxRedirects == 5

BodyMethods == {M_POST, M_PUT, M_PATCH}

\* Mutant of attachesBody: the method is not looked at.
attachesBodyAnyMethod(cfg) == Truthy(cfg.body)

\* Line 27: the descriptor's body becomes the outgoing payload.
attachesBody(cfg) == Truthy(cfg.body) /\ cfg.method \in BodyMethods

\* Mutant of contentTypeDefault: the default is applied outside the body branch.
contentTypeDefaultAlways(headers, attach) ==
  IF ~(S_ContentType \in DOMAIN headers /\ headers[S_ContentType] # <<>>)
  THEN Put(headers, S_ContentType, S_ApplicationJson)
  ELSE headers

\* Lines 27-33: Content-Type defaults to application/json with a payload.
contentTypeDefault(headers, attach) ==
  IF attach /\ ~(S_ContentType \in DOMAIN headers /\ headers[S_ContentType] # <<>>)
  THEN Put(headers, S_ContentType, S_ApplicationJson)
  ELSE headers

\* Mutant of basicCredentials: a user name alone is enough.
basicCredentialsUserOnly(auth) ==
  IF auth.has /\ auth.v.type = "basic" /\ Truthy(auth.v.username)
  THEN Some([username |-> auth.v.username.v,
             password |-> IF auth.v.password.has THEN auth.v.password.v ELSE <<>>])
  ELSE Absent

\* Lines 38-45: basic auth becomes axiosConfig.auth.
basicCredentials(auth) ==
  IF auth.has /\ auth.v.type = "basic" /\ Truthy(auth.v.username) /\ Truthy(auth.v.password)
  THEN Some([username |-> auth.v.username.v, password |-> auth.v.password.v])
  ELSE Absent

\* Lines 46-50: bearer auth sets the Authorization header.
bearerHeader(headers, auth) ==
  IF auth.has /\ auth.v.type = "bearer" /\ Truthy(auth.v.token)
  THEN Put(headers, S_Authorization, S_Bearer_sp \o auth.v.token.v)
  ELSE headers

\* The outgoing request: lines 16-52 of executeRequest.
buildAxiosConfig(cfg) ==
  LET headers0 == IF cfg.headers.has THEN cfg.headers.v ELSE EmptyMap
      attach   == attachesBody(cfg)
  IN  [url |-> cfg.url,
       method |-> toLowerCase(cfg.method),
       headers |-> bearerHeader(contentTypeDefault(headers0, attach), cfg.auth),
       timeout |-> cfg.timeout,
       maxRedirects |-> IF cfg.followRedirects THEN MaxRedirects ELSE 0,
       validateStatus |-> TRUE,
       data |-> IF attach THEN cfg.body ELSE Absent,
       auth |-> basicCredentials(cfg.auth)]

(* Response payloads: response.data after axios has decoded it *)

DUndefined == [t |-> "undefined"]
DNull == [t |-> "null"]
DString(s) == [t |-> "string", s |-> s]
DNumber(n) == [t |-> "number", n |-> n]
DBoolean(b) == [t |-> "boolean", b |-> b]
DObject(members) == [t |-> "object", members |-> members]
DArray(items) == [t |-> "array", items |-> items]

DigitChars == <<"0","1","2","3","4","5","6","7","8","9">>

\* String(n) for a natural number.
RECURSIVE numberToString(_)
numberToString(n) ==
  IF n < 10 THEN <<DigitChars[n + 1]>>
  ELSE numberToString(n \div 10) \o <<DigitChars[(n % 10) + 1]>>

\* JSON.stringify of a string: quoted, with ", \ and line feed escaped.
RECURSIVE jsonEscape(_)
jsonEscape(s) ==
  IF s = <<>> THEN <<>>
  ELSE (CASE Head(s) = DQ -> <<"\\", DQ>>
          [] Head(s) = "\\" -> <<"\\", "\\">>
          [] Head(s) = "\n" -> <<"\\", "n">>
          [] OTHER -> <<Head(s)>>) \o jsonEscape(Tail(s))
jsonQuote(s) == <<DQ>> \o jsonEscape(s) \o <<DQ>>

\* JSON.stringify of a scalar member.
jsonScalar(d) ==
  CASE d.t = "string" -> jsonQuote(d.s)
    [] d.t = "number" -> numberToString(d.n)
    [] d.t = "boolean" -> IF d.b THEN <<"t","r","u","e">> ELSE <<"f","a","l","s","e">>
    [] OTHER -> <<"n","u","l","l">>

\* The lines of a pretty-printed object or array joined by ",\n".
RECURSIVE joinLines(_)
joinLines(ls) ==
  IF Len(ls) = 1 THEN ls[1]
  ELSE ls[1] \o <<",", "\n">> \o joinLines(Tail(ls))

\* JSON.stringify(data, null, 2) for an object or an array of scalars.
jsonStringifyIndent2(d) ==
  IF d.t = "object"
  THEN IF d.members = <<>> THEN <<"{","}">>
       ELSE <<"{", "\n">>
            \o joinLines([i \in 1..Len(d.members) |->
                 <<" ", " ">> \o jsonQuote(d.members[i].k) \o <<":", " ">>
                 \o jsonScalar(d.members[i].v)])
            \o <<"\n", "}">>
  ELSE IF d.items = <<>> THEN <<"[","]">>
       ELSE <<"[", "\n">>
            \o joinLines([i \in 1..Len(d.items) |-> <<" ", " ">> \o jsonScalar(d.items[i])])
            \o <<"\n", "]">>

formatBody(data) ==
  CASE data.t \in {"undefined", "null"} -> <<>>
    [] data.t = "string" -> data.s
    [] data.t \in {"object", "array"} -> jsonStringifyIndent2(data)
    [] OTHER -> jsonScalar(data)

\* Bytes of one character in UTF-8.
utf8Bytes(c) == CASE c = "é" -> 2 [] c = "€" -> 3 [] OTHER -> 1

\* Buffer.byteLength(s, 'utf-8')
RECURSIVE byteLength(_)
byteLength(s) == IF s = <<>> THEN 0 ELSE utf8Bytes(Head(s)) + byteLength(Tail(s))

\* Mutant of calculateBodySize: the string's length instead of its bytes.
calculateBodySizeLength(data) == Len(formatBody(data))

calculateBodySize(data) == byteLength(formatBody(data))

HttpErrorText(status, statusText) ==
  S_HTTP_sp \o numberToString(status) \o <<":", " ">> \o statusText

\* Lines 56-74: the descriptor of a response axios resolved with.
responseResult(r) ==
  LET success == r.status >= 200 /\ r.status < 300
  IN  [success |-> success,
       status |-> r.status,
       statusText |-> r.statusText,
       headers |-> r.headers,
       body |-> formatBody(r.data),
       bodySize |-> calculateBodySize(r.data),
       error |-> IF ~success THEN Some(HttpErrorText(r.status, r.statusText)) ELSE Absent]

FailureResult(statusText, message) ==
  [success |-> FALSE, status |-> 0, statusText |-> statusText, headers |-> EmptyMap,
   body |-> <<>>, bodySize |-> 0, error |-> Some(message)]

\* Mutant of noResponseResult: the error.request branch is missing.
noResponseResultSetupOnly(error) == FailureResult(S_RequestError, error.message)

\* Lines 113-137: no response was received.
noResponseResult(error) ==
  IF error.request
  THEN FailureResult(S_NoResponse, S_NoResponseMsg)
  ELSE FailureResult(S_RequestError, error.message)

handleAxiosError(error) ==
  IF error.response.has
  THEN LET r == error.response.v
       IN  [success |-> FALSE,
            status |-> r.status,
            statusText |-> r.statusText,
            headers |-> r.headers,
            body |-> formatBody(r.data),
            bodySize |-> calculateBodySize(r.data),
            error |-> Some(HttpErrorText(r.status, r.statusText))]
  ELSE noResponseResult(error)

\* Mutant of catchBlock: only axios errors are captured, others propagate.
catchBlockAxiosOnly(error) ==
  IF error.isAxiosError THEN Returned(handleAxiosError(error))
  ELSE [kind |-> "threw", error |-> error]

\* Lines 75-94: the catch block of executeRequest.
catchBlock(error) ==
  IF error.isAxiosError THEN Returned(handleAxiosError(error))
  ELSE Returned(FailureResult(S_UnknownError,
                  IF error.isError THEN error.message ELSE S_UnknownErrorMsg))

(* What the transport (axios) may do with a dispatched request *)

Statuses == {200, 204, 299, 300, 404}
StatusText(status) ==
  CASE status = 200 -> <<"O","K">>
    [] status = 204 -> <<"N","o"," ","C","o","n","t","e","n","t">>
    [] status = 404 -> <<"N","o","t"," ","F","o","u","n","d">>
    [] status = 500 -> <<"I","n","t","e","r","n","a","l"," ","S","e","r","v","e","r"," ","E","r","r","o","r">>
    [] OTHER -> <<>>

ResponseHeaders == Put(EmptyMap, <<"c","o","n","t","e","n","t","-","t","y","p","e">>, <<"t","e","x","t","/","p","l","a","i","n">>)

Payloads == {
  DUndefined, DNull, DString(<<>>), DString(<<"o","k">>), DString(<<"é", "€">>),
  DNumber(42), DBoolean(FALSE),
  DObject(<<>>),
  DObject(<<[k |-> <<"a">>, v |-> DNumber(1)], [k |-> <<"m">>, v |-> DString(<<"é", DQ>>)]>>),
  DArray(<<DString(<<"x">>), DNull>>) }

Resp(st, d) ==
  [status |-> st, statusText |-> StatusText(st), headers |-> ResponseHeaders, data |-> d]

\* Responses axios resolves with.
Responses ==
  {Resp(st, DString(<<"o","k">>)) : st \in Statuses}
  \cup {Resp(st, d) : st \in {200, 404}, d \in Payloads}

\* Responses an AxiosError may carry.
ErrorResponses ==
  {Resp(st, d) : st \in {200, 500},
                 d \in {DUndefined, DString(<<"é", "€">>), DObject(<<[k |-> <<"a">>, v |-> DNumber(1)]>>)}}

Thrown(isAxios, isErr, resp, req, msg) ==
  [isAxiosError |-> isAxios, isError |-> isErr, response |-> resp, request |-> req,
   message |-> msg]

\* Rejections of axios(axiosConfig): an AxiosError carrying the response it
\* failed on, one with the request but no response (network failure,
\* timeout), one raised before dispatch, and exceptions that are no AxiosError.
Rejections ==
  {Thrown(TRUE, TRUE, Some(r), TRUE, <<"C","a","n","n","o","t"," ","c","r","e","a","t","e"," ","a"," ","s","t","r","i","n","g"," ","l","o","n","g","e","r"," ","t","h","a","n"," ","0","x","1","f","f","f","f","f","e","8"," ","c","h","a","r","a","c","t","e","r","s">>) : r \in ErrorResponses}
  \cup {Thrown(TRUE, TRUE, Absent, TRUE, m) : m \in {<<"N","e","t","w","o","r","k"," ","E","r","r","o","r">>, <<"t","i","m","e","o","u","t"," ","o","f"," ","3","0","0","0","0","m","s"," ","e","x","c","e","e","d","e","d">>}}
  \cup {Thrown(TRUE, TRUE, Absent, FALSE, <<"I","n","v","a","l","i","d"," ","U","R","L">>)}
  \cup {Thrown(FALSE, TRUE, Absent, FALSE, <<"C","a","n","n","o","t"," ","r","e","a","d"," ","p","r","o","p","e","r","t","i","e","s"," ","o","f"," ","u","n","d","e","f","i","n","e","d">>),
        Thrown(FALSE, FALSE, Absent, FALSE, <<>>)}

---------------------------------------------------------------------------
(* types.ts: the input schemas; server.ts: applyDefaults and the CallTool
   handler *)

\* execute_curl
T_execute_curl == <<"e","x","e","c","u","t","e","_","c","u","r","l">>
\* http_request
T_http_request == <<"h","t","t","p","_","r","e","q","u","e","s","t">>
\* Unknown tool: 
E_UnknownTool == <<"U","n","k","n","o","w","n"," ","t","o","o","l",":"," ">>
\* Invalid input
E_InvalidInput == <<"I","n","v","a","l","i","d"," ","i","n","p","u","t">>
\* Unknown error
E_UnknownErrorShort == <<"U","n","k","n","o","w","n"," ","e","r","r","o","r">>

HttpMethods == {M_GET, M_POST, M_PUT, M_PATCH, M_DELETE, M_HEAD, M_OPTIONS}

\* A JSON argument that should be a string: missing, of another type, or a string.
MissingArg == [t |-> "missing", s |-> <<>>]
NumberArg == [t |-> "number", s |-> <<>>]
StrArg(s) == [t |-> "string", s |-> s]

Issue(path, code) == [path |-> path, code |-> code]

\* z.string().url(): the string parses as an absolute URL, that is, it
\* begins with a scheme (letters) followed by a colon.
IsUrl(s) ==
  LET colon == indexOf(s, ":")
  IN  colon > 0 /\ \A i \in 1..colon : s[i] \in Letters

\* ExecuteCurlInputSchema.parse(args): the issues of the ZodError, none when valid.
ExecuteCurlInputSchema(args) ==
  IF args.curlCommand.t = "string" THEN <<>>
  ELSE <<Issue("curlCommand", "invalid_type")>>

\* method: z.enum([...]) without .optional(): required.
MethodIssues(method) ==
  IF ~method.has THEN <<Issue("method", "invalid_type")>>
  ELSE IF method.v \notin HttpMethods THEN <<Issue("method", "invalid_enum_value")>>
  ELSE <<>>

\* HttpRequestInputSchema.parse(args); the optional fields of an input are
\* well typed by construction here.
HttpRequestInputSchema(args) ==
  (IF args.url.t # "string" THEN <<Issue("url", "invalid_type")>>
   ELSE IF ~IsUrl(args.url.s) THEN <<Issue("url", "invalid_string")>>
   ELSE <<>>)
  \o MethodIssues(args.method)

applyDefaults(input) ==
  [url |-> input.url.s,
   method |-> IF Truthy(input.method) THEN input.method.v ELSE M_GET,
   headers |-> input.headers,
   body |-> input.body,
   auth |-> input.auth,
   timeout |-> IF input.timeout.has THEN input.timeout.v ELSE DefaultTimeout,
   followRedirects |-> IF input.followRedirects.has THEN input.followRedirects.v ELSE TRUE]

\* The results the handler returns.
ResponseResult(r) ==
  [isError |-> FALSE, success |-> r.success, error |-> r.error, details |-> Absent,
   response |-> Some(r)]
ValidationErrorResult(issues) ==
  [isError |-> TRUE, success |-> FALSE, error |-> Some(E_InvalidInput),
   details |-> Some(issues), response |-> Absent]
\* Mutant of OtherErrorResult: the isError flag is forgotten.
OtherErrorResultUnflagged(message) ==
  [isError |-> FALSE, success |-> FALSE, error |-> Some(message), details |-> Absent,
   response |-> Absent]

OtherErrorResult(message) ==
  [isError |-> TRUE, success |-> FALSE, error |-> Some(message), details |-> Absent,
   response |-> Absent]

\* The handler up to its first await: it either returns an error result or
\* hands a config to httpClient.executeRequest.
Outcome(res, p, cfg) == [result |-> res, parsed |-> p, config |-> cfg]

\* Lines 383-386: the parser's error is caught, its config is executed.
curlOutcome(p) ==
  IF p.kind = "threw" THEN Outcome(OtherErrorResult(p.message), p, None)
  ELSE Outcome(None, p, p.value)

handleCall(c) ==
  IF c.name = T_execute_curl
  THEN IF ExecuteCurlInputSchema(c.args) # <<>>
       THEN Outcome(ValidationErrorResult(ExecuteCurlInputSchema(c.args)), None, None)
       ELSE curlOutcome(parseCurlCommand(c.args.curlCommand.s))
  ELSE IF c.name = T_http_request
  THEN IF HttpRequestInputSchema(c.args) # <<>>
       THEN Outcome(ValidationErrorResult(HttpRequestInputSchema(c.args)), None, None)
       ELSE Outcome(None, None, applyDefaults(c.args))
  ELSE Outcome(OtherErrorResult(E_UnknownTool \o c.name), None, None)

\* The handler after `await httpClient.executeRequest(config)`.
afterExecute(r) ==
  IF r.kind = "returned" THEN ResponseResult(r.value)
  ELSE OtherErrorResult(IF r.error.isError THEN r.error.message ELSE E_UnknownErrorShort)

(* The calls a client may make *)

CurlCall(arg) == [name |-> T_execute_curl, args |-> [curlCommand |-> arg]]

ToolCommands == {
  <<"c","u","r","l"," ","h","t","t","p","s",":","/","/","a",".","i","o","/","x">>,
  <<"c","u","r","l"," ","\"","h","t","t","p",":","/","/","b",".","i","o","\"">>,
  <<"c","u","r","l"," ","-","X"," ","p","u","t"," ","-","d"," ","x","=","1"," ","h","t","t","p","s",":","/","/","a",".","i","o","/","x">>,
  <<"c","u","r","l"," ","-","H"," ","'","A","u","t","h","o","r","i","z","a","t","i","o","n",":"," ","B","e","a","r","e","r"," ","t","1","'"," ","h","t","t","p","s",":","/","/","a",".","i","o","/","x">>,
  <<"c","u","r","l"," ","-","H"," ","\"","A","u","t","h","o","r","i","z","a","t","i","o","n",":"," ","B","a","s","i","c"," ","Y","T","p","i","\""," ","h","t","t","p","s",":","/","/","a",".","i","o","/","x">>,
  <<"c","u","r","l"," ","-","u"," ","a","l",":","p","w"," ","h","t","t","p","s",":","/","/","a",".","i","o","/","x">>,
  <<"c","u","r","l"," ","-","-","u","s","e","r"," ","\"","b","o","b","\""," ","-","X"," ","D","E","L","E","T","E"," ","h","t","t","p","s",":","/","/","a",".","i","o","/","x">>,
  <<"c","u","r","l"," ","-","d"," ","x","=","1">>,
  <<"w","g","e","t"," ","h","t","t","p","s",":","/","/","a",".","i","o","/","x">> }

CurlCalls == {CurlCall(a) : a \in {MissingArg, NumberArg} \cup {StrArg(c) : c \in ToolCommands}}

Opt(S) == {Absent} \cup {Some(x) : x \in S}

InputUrls == {MissingArg, NumberArg, StrArg(<<"n","o","t"," ","a"," ","u","r","l">>), StrArg(<<"h","t","t","p","s",":","/","/","a",".","i","o","/","x">>)}
InputMethods == Opt(HttpMethods \cup {<<"g","e","t">>})
InputHeaders ==
  Opt({Put(EmptyMap, S_ContentType, <<"t","e","x","t","/","p","l","a","i","n">>),
       Put(EmptyMap, S_ContentType, <<>>),
       Put(EmptyMap, <<"c","o","n","t","e","n","t","-","t","y","p","e">>, <<"t","e","x","t","/","p","l","a","i","n">>),
       Put(EmptyMap, S_Authorization, <<"B","a","s","i","c"," ","Y","T","p","i">>)})
InputBodies == Opt({<<>>, <<"x","=","1">>})
InputAuths ==
  Opt({[type |-> "none", username |-> Absent, password |-> Absent, token |-> Absent],
       BasicAuth(<<"a","l">>, <<"p","w">>), BasicAuth(<<"b","o","b">>, <<>>),
       BearerAuth(<<"t","1">>),
       [type |-> "bearer", username |-> Absent, password |-> Absent, token |-> Absent]})
InputTimeouts == Opt({0})
InputFollows == Opt({FALSE})

HttpCalls ==
  {[name |-> T_http_request,
    args |-> [url |-> u, method |-> m, headers |-> h, body |-> b, auth |-> a,
              timeout |-> t, followRedirects |-> f]] :
     u \in InputUrls, m \in InputMethods, h \in InputHeaders, b \in InputBodies,
     a \in InputAuths, t \in InputTimeouts, f \in InputFollows}

OtherCalls == {[name |-> <<"r","u","n","_","s","h","e","l","l">>, args |-> [curlCommand |-> StrArg(<<"c","u","r","l"," ","h","t","t","p","s",":","/","/","a",".","i","o","/","x">>)]]}

Calls == CurlCalls \cup HttpCalls \cup OtherCalls

---------------------------------------------------------------------------
(* http-wrapper: the HTTP facade with its own copy of the parser and of the
   executor *)

\* /api/execute_curl
P_execute_curl == <<"/","a","p","i","/","e","x","e","c","u","t","e","_","c","u","r","l">>
\* /api/http_request
P_http_request == <<"/","a","p","i","/","h","t","t","p","_","r","e","q","u","e","s","t">>
\* curlCommand is required
E_CurlCommandRequired == <<"c","u","r","l","C","o","m","m","a","n","d"," ","i","s"," ","r","e","q","u","i","r","e","d">>
\* url is required
E_UrlRequired == <<"u","r","l"," ","i","s"," ","r","e","q","u","i","r","e","d">>
\* curlCommand.match is not a function
E_MatchNotFunction == <<"c","u","r","l","C","o","m","m","a","n","d",".","m","a","t","c","h"," ","i","s"," ","n","o","t"," ","a"," ","f","u","n","c","t","i","o","n">>
\* The "string" argument must be of type string or an instance of Buffer or ArrayBuffer.
E_ByteLengthType == <<"T","h","e"," ","\"","s","t","r","i","n","g","\""," ","a","r","g","u","m","e","n","t"," ","m","u","s","t"," ","b","e"," ","o","f"," ","t","y","p","e"," ","s","t","r","i","n","g"," ","o","r"," ","a","n"," ","i","n","s","t","a","n","c","e"," ","o","f"," ","B","u","f","f","e","r"," ","o","r"," ","A","r","r","a","y","B","u","f","f","e","r",".">>
\* Error
S_Error == <<"E","r","r","o","r">>

\* curlCommand.match(/https?:\/\/[^\s"'\$]+/i): the leftmost match.
facadeUrlRegex(s) ==
  LET hits == {i \in 1..Len(s) : UrlPatternAt(s, i).found}
  IN  IF hits = {} THEN NoMatch ELSE UrlPatternAt(s, MinOf(hits))

\* The header loop of the facade: the same pattern, no Authorization check.
facadeHeaders(s) == headerLoop(s, 1, [headers |-> EmptyMap, auth |-> Absent]).headers

\* The body pass of the facade: the first data match, unescaped.
facadeBody(s) ==
  IF dataRegexExec(s).found THEN unescape(dataRegexExec(s).value) ELSE <<>>

\* parsed.method: the flag's value, else POST when a body was found.
facadeMethod(methodMatch, body) ==
  IF methodMatch.found THEN toUpperCase(methodMatch.value)
  ELSE IF body # <<>> THEN M_POST ELSE M_GET

\* parseCurlCommand of the facade: never throws; url is '' when none is found.
facadeParseCurlCommand(curlCommand) ==
  [url |-> facadeUrlRegex(curlCommand).value,
   method |-> facadeMethod(methodRegex(curlCommand), facadeBody(curlCommand)),
   headers |-> Some(facadeHeaders(curlCommand)),
   body |-> IF facadeBody(curlCommand) # <<>> THEN Some(facadeBody(curlCommand)) ELSE Absent,
   auth |-> Absent,
   timeout |-> Absent,
   followRedirects |-> Absent]

\* Lines 78-105 of executeHttpRequest: the outgoing request.
facadeAxiosConfig(cfg) ==
  [url |-> cfg.url,
   method |-> toLowerCase(cfg.method),
   headers |-> bearerHeader(contentTypeDefault(IF cfg.headers.has THEN cfg.headers.v ELSE EmptyMap,
                                               attachesBody(cfg)),
                            cfg.auth),
   timeout |-> IF cfg.timeout.has /\ cfg.timeout.v # 0 THEN cfg.timeout.v ELSE DefaultTimeout,
   maxRedirects |-> IF cfg.followRedirects # Some(FALSE) THEN MaxRedirects ELSE 0,
   validateStatus |-> TRUE,
   data |-> IF attachesBody(cfg) THEN cfg.body ELSE Absent,
   auth |-> basicCredentials(cfg.auth)]

\* JSON.stringify(data) without indentation, for null, an object or an array
\* of scalars.
RECURSIVE joinComma(_)
joinComma(ls) ==
  IF Len(ls) = 1 THEN ls[1] ELSE ls[1] \o <<",">> \o joinComma(Tail(ls))
jsonStringify(d) ==
  IF d.t = "object"
  THEN IF d.members = <<>> THEN <<"{","}">>
       ELSE <<"{">>
            \o joinComma([i \in 1..Len(d.members) |->
                 jsonQuote(d.members[i].k) \o <<":">> \o jsonScalar(d.members[i].v)])
            \o <<"}">>
  ELSE IF d.t = "array"
  THEN IF d.items = <<>> THEN <<"[","]">>
       ELSE <<"[">> \o joinComma([i \in 1..Len(d.items) |-> jsonScalar(d.items[i])]) \o <<"]">>
  ELSE <<"n","u","l","l">>

\* typeof data === 'object'
IsObjectType(d) == d.t \in {"object", "array", "null"}

\* Line 115: typeof data === 'object' ? JSON.stringify(data, null, 2) : data
facadeFormatBody(d) ==
  IF d.t = "null" THEN DString(<<"n","u","l","l">>)
  ELSE IF IsObjectType(d) THEN DString(jsonStringifyIndent2(d))
  ELSE d

\* Line 131: typeof data === 'object' ? JSON.stringify(data) : data
facadeErrorBody(d) == IF IsObjectType(d) THEN DString(jsonStringify(d)) ELSE d

\* JavaScript truthiness of a payload that is no object.
ScalarTruthy(d) ==
  CASE d.t = "string" -> d.s # <<>>
    [] d.t = "number" -> d.n # 0
    [] d.t = "boolean" -> d.b
    [] OTHER -> FALSE

\* Lines 116-119: the argument given to Buffer.byteLength.
facadeSizeArg(d) ==
  IF IsObjectType(d) THEN DString(jsonStringify(d))
  ELSE IF ScalarTruthy(d) THEN d
  ELSE DString(<<>>)

\* Lines 138-147: the failure result without a response.
facadeFailure(message) ==
  [success |-> FALSE, status |-> 0, statusText |-> S_Error, headers |-> EmptyMap,
   body |-> DString(<<>>), bodySize |-> 0, error |-> message]

\* Lines 107-121: the result for a response axios resolved with; a
\* Buffer.byteLength that throws lands in the catch block of lines 122-148.
facadeResponseResult(r) ==
  IF facadeSizeArg(r.data).t # "string"
  THEN facadeFailure(Some(E_ByteLengthType))
  ELSE [success |-> r.status >= 200 /\ r.status < 300,
        status |-> r.status,
        statusText |-> r.statusText,
        headers |-> r.headers,
        body |-> facadeFormatBody(r.data),
        bodySize |-> byteLength(facadeSizeArg(r.data).s),
        error |-> Absent]

\* Lines 122-148: the catch block of executeHttpRequest.
facadeCatchBlock(error) ==
  IF error.response.has
  THEN [success |-> FALSE,
        status |-> error.response.v.status,
        statusText |-> error.response.v.statusText,
        headers |-> error.response.v.headers,
        body |-> facadeErrorBody(error.response.v.data),
        bodySize |-> 0,
        error |-> Some(HttpErrorText(error.response.v.status, error.response.v.statusText))]
  ELSE facadeFailure(IF error.isError THEN Some(error.message) ELSE Absent)

\* The replies of the endpoints: res.status(code).json(body).
Reply(code, json) == [code |-> code, json |-> json]
\* Lines 162 and 192: a required field is missing.
BadRequestReply(message) == Reply(400, [error |-> Some(message)])
\* Lines 173-182 and 209-218: the catch block of an endpoint.
InternalErrorReply(message) == Reply(500, facadeFailure(Some(message)))
\* Lines 171 and 207: res.json(result).
ResultReply(result) == Reply(200, result)

\* JavaScript truthiness of a JSON argument.
ArgTruthy(a) == a.t = "number" \/ (a.t = "string" /\ a.s # <<>>)

\* An endpoint up to `await axios(axiosConfig)`: a reply, or the config given
\* to executeHttpRequest.
FacadeOutcome(reply, p, cfg) == [reply |-> reply, parsed |-> p, config |-> cfg]

\* Lines 157-171: POST /api/execute_curl.
postExecuteCurl(body) ==
  IF ~ArgTruthy(body.curlCommand)
  THEN FacadeOutcome(BadRequestReply(E_CurlCommandRequired), None, None)
  ELSE IF body.curlCommand.t # "string"
  THEN FacadeOutcome(InternalErrorReply(E_MatchNotFunction), None, None)
  ELSE FacadeOutcome(None, facadeParseCurlCommand(body.curlCommand.s),
                     facadeParseCurlCommand(body.curlCommand.s))

\* Lines 187-205: POST /api/http_request.
postHttpRequest(body) ==
  IF ~ArgTruthy(body.url)
  THEN FacadeOutcome(BadRequestReply(E_UrlRequired), None, None)
  ELSE FacadeOutcome(None, None,
         [url |-> body.url.s,
          method |-> IF body.method.has THEN body.method.v ELSE M_GET,
          headers |-> body.headers,
          body |-> body.body,
          auth |-> body.auth,
          timeout |-> body.timeout,
          followRedirects |-> body.followRedirects])

handleRequest(req) ==
  IF req.path = P_execute_curl THEN postExecuteCurl(req.body) ELSE postHttpRequest(req.body)

(* The requests a client may post *)

FacadeCommands ==
  ToolCommands \cup {
    <<"c","u","r","l"," ","-","X"," ","P","U","R","G","E"," ","h","t","t","p","s",":","/","/","a",".","i","o","/","x">>,
    <<"c","u","r","l"," ","-","-","d","a","t","a"," ","'","{","\"","a","\"",":","1","}","'"," ","-","H"," ","'","C","o","n","t","e","n","t","-","T","y","p","e",":"," ","t","e","x","t","/","p","l","a","i","n","'"," ","h","t","t","p","s",":","/","/","a",".","i","o","/","x">> }

CurlPosts ==
  {[path |-> P_execute_curl, body |-> [curlCommand |-> a]] :
     a \in {MissingArg, NumberArg, StrArg(<<>>)} \cup {StrArg(c) : c \in FacadeCommands}}

HttpPosts ==
  {[path |-> P_http_request,
    body |-> [url |-> u, method |-> m, headers |-> Absent, body |-> b, auth |-> a,
              timeout |-> t, followRedirects |-> f]] :
     u \in {MissingArg, StrArg(<<>>), StrArg(<<"h","t","t","p","s",":","/","/","a",".","i","o","/","x">>)},
     m \in Opt({M_POST}), b \in Opt({<<"x","=","1">>}),
     a \in Opt({BasicAuth(<<"a","l">>, <<"p","w">>), BearerAuth(<<"t","1">>)}),
     t \in InputTimeouts, f \in InputFollows}

Posts == CurlPosts \cup HttpPosts

---------------------------------------------------------------------------
(* The server: one CallTool request from arrival to its result *)

Init ==
  /\ pc = "idle"
  /\ call \in Calls
  /\ parsed = None
  /\ config = None
  /\ axiosConfig = None
  /\ transport = None
  /\ response = None
  /\ toolResult = None
  /\ execCalls = 0

\* The handler runs up to `await axios(axiosConfig)` inside executeRequest, or
\* returns an error result without reaching the executor.
CallTool ==
  /\ pc = "idle"
  /\ \E o \in {handleCall(call)} :
         /\ parsed' = o.parsed
         /\ IF o.result # None
            THEN /\ toolResult' = o.result
                 /\ pc' = "done"
                 /\ UNCHANGED <<config, axiosConfig, execCalls>>
            ELSE /\ config' = o.config
                 /\ axiosConfig' = buildAxiosConfig(o.config)
                 /\ execCalls' = execCalls + 1
                 /\ pc' = "awaiting"
                 /\ UNCHANGED toolResult
  /\ UNCHANGED <<call, transport, response>>

\* axios resolves: with validateStatus always true, for any status.
AxiosResolve ==
  /\ pc = "awaiting"
  /\ \E r \in Responses :
       /\ axiosConfig.validateStatus \/ (r.status >= 200 /\ r.status < 300)
       /\ transport' = [kind |-> "resolved", response |-> r]
       /\ response' = Returned(responseResult(r))
  /\ toolResult' = afterExecute(response')
  /\ pc' = "done"
  /\ UNCHANGED <<call, parsed, config, axiosConfig, execCalls>>

\* axios rejects or throws.
AxiosReject ==
  /\ pc = "awaiting"
  /\ \E e \in Rejections :
       /\ transport' = [kind |-> "rejected", error |-> e]
       /\ response' = catchBlock(e)
  /\ toolResult' = afterExecute(response')
  /\ pc' = "done"
  /\ UNCHANGED <<call, parsed, config, axiosConfig, execCalls>>

Next == CallTool \/ AxiosResolve \/ AxiosReject

Spec == Init /\ [][Next]_vars

---------------------------------------------------------------------------
(* The parser alone, applied to every command string *)

InitParse ==
  /\ pc = "idle"
  /\ call \in {CurlCall(StrArg(c)) : c \in Commands}
  /\ parsed = None
  /\ config = None
  /\ axiosConfig = None
  /\ transport = None
  /\ response = None
  /\ toolResult = None
  /\ execCalls = 0

ParseCurl ==
  /\ pc = "idle"
  /\ parsed' = parseCurlCommand(call.args.curlCommand.s)
  /\ pc' = "done"
  /\ UNCHANGED <<call, config, axiosConfig, transport, response, toolResult, execCalls>>

NextParse == ParseCurl

SpecParse == InitParse /\ [][NextParse]_vars

---------------------------------------------------------------------------
(* The same call when the remote server may stay silent: the only step the
   runtime guarantees after dispatch is the transport's timer *)

\* timeout of 
S_timeout_of == <<"t","i","m","e","o","u","t"," ","o","f"," ">>
\* ms exceeded
S_ms_exceeded == <<"m","s"," ","e","x","c","e","e","d","e","d">>

\* The AxiosError of an expired timer: it carries the request and no response.
TimeoutError(ms) ==
  Thrown(TRUE, TRUE, Absent, TRUE, S_timeout_of \o numberToString(ms) \o S_ms_exceeded)

\* The timer armed by `timeout: config.timeout` expires; a timeout of 0 arms
\* no timer.
AxiosTimeout ==
  /\ pc = "awaiting"
  /\ axiosConfig.timeout > 0
  /\ transport' = [kind |-> "timeout", error |-> TimeoutError(axiosConfig.timeout)]
  /\ response' = catchBlock(TimeoutError(axiosConfig.timeout))
  /\ toolResult' = afterExecute(response')
  /\ pc' = "done"
  /\ UNCHANGED <<call, parsed, config, axiosConfig, execCalls>>

LiveTimeouts == Opt({0, 1, 5000})

\* The calls followed to their end: every execute_curl call, and http_request
\* calls over every timeout.
LiveCalls ==
  CurlCalls
  \cup {[name |-> T_http_request,
         args |-> [url |-> StrArg(<<"h","t","t","p","s",":","/","/","a",".","i","o","/","x">>), method |-> Some(m),
                   headers |-> Absent, body |-> b, auth |-> Absent,
                   timeout |-> t, followRedirects |-> Absent]] :
          m \in {M_GET, M_POST}, b \in InputBodies, t \in LiveTimeouts}

InitLive ==
  /\ pc = "idle"
  /\ call \in LiveCalls
  /\ parsed = None
  /\ config = None
  /\ axiosConfig = None
  /\ transport = None
  /\ response = None
  /\ toolResult = None
  /\ execCalls = 0

NextLive == CallTool \/ AxiosResolve \/ AxiosReject \/ AxiosTimeout

\* Once a request is dispatched an armed timer fires; nothing obliges the
\* server or the network to act.
SpecLive == InitLive /\ [][NextLive]_vars /\ WF_vars(AxiosTimeout)

---------------------------------------------------------------------------
(* The HTTP facade: one POST from arrival to its reply. config and
   axiosConfig are those of executeHttpRequest, response is its result and
   toolResult the reply sent with res.json *)

InitFacade ==
  /\ pc = "idle"
  /\ call \in Posts
  /\ parsed = None
  /\ config = None
  /\ axiosConfig = None
  /\ transport = None
  /\ response = None
  /\ toolResult = None
  /\ execCalls = 0

\* The endpoint runs up to `await axios(axiosConfig)` inside
\* executeHttpRequest, or replies without reaching it.
FacadePost ==
  /\ pc = "idle"
  /\ \E o \in {handleRequest(call)} :
         /\ parsed' = o.parsed
         /\ IF o.reply # None
            THEN /\ toolResult' = o.reply
                 /\ pc' = "done"
                 /\ UNCHANGED <<config, axiosConfig, execCalls>>
            ELSE /\ config' = o.config
                 /\ axiosConfig' = facadeAxiosConfig(o.config)
                 /\ execCalls' = execCalls + 1
                 /\ pc' = "awaiting"
                 /\ UNCHANGED toolResult
  /\ UNCHANGED <<call, transport, response>>

\* axios resolves; it cannot for a url that is no URL.
FacadeResolve ==
  /\ pc = "awaiting"
  /\ IsUrl(axiosConfig.url)
  /\ \E r \in Responses :
       /\ transport' = [kind |-> "resolved", response |-> r]
       /\ response' = Returned(facadeResponseResult(r))
  /\ toolResult' = ResultReply(response'.value)
  /\ pc' = "done"
  /\ UNCHANGED <<call, parsed, config, axiosConfig, execCalls>>

\* axios rejects or throws; for a url that is no URL, before dispatch.
FacadeReject ==
  /\ pc = "awaiting"
  /\ \E e \in Rejections :
       /\ IsUrl(axiosConfig.url) \/ (~e.response.has /\ ~e.request)
       /\ transport' = [kind |-> "rejected", error |-> e]
       /\ response' = Returned(facadeCatchBlock(e))
  /\ toolResult' = ResultReply(response'.value)
  /\ pc' = "done"
  /\ UNCHANGED <<call, parsed, config, axiosConfig, execCalls>>

NextFacade == FacadePost \/ FacadeResolve \/ FacadeReject

SpecFacade == InitFacade /\ [][NextFacade]_vars

---------------------------------------------------------------------------
(* Claims about HttpClient.executeRequest and the CallTool handler, checked
   under Spec *)

Executed == pc = "done" /\ execCalls > 0
Descriptor == response.value

\* C1: executeRequest never throws: whatever the transport does (a response
\* of any status, no response, a timeout, a setup failure, an exception that
\* is no AxiosError), the call resolves with a response descriptor.
C1_ExecuteRequestNeverThrows ==
  Executed =>
    /\ response.kind = "returned"
    /\ DOMAIN Descriptor =
         {"success", "status", "statusText", "headers", "body", "bodySize", "error"}
    /\ toolResult.response = Some(Descriptor)

\* C1 witness: an exception that is no AxiosError was captured into a descriptor.
C1_Witness ==
  /\ Executed
  /\ transport.kind = "rejected" /\ ~transport.error.isAxiosError
  /\ response.kind = "returned"
  /\ Descriptor.statusText = S_UnknownError

\* C2: on every path, success is true exactly when 200 <= status < 300.
C2_SuccessIffStatus2xx ==
  (Executed /\ response.kind = "returned") =>
    (Descriptor.success <=> (Descriptor.status >= 200 /\ Descriptor.status < 300))

\* C3: bodySize is the UTF-8 byte length of the descriptor's body, whatever
\* the payload was and on the error paths too.
C3_BodySizeIsUtf8ByteLength ==
  (Executed /\ response.kind = "returned") =>
    Descriptor.bodySize = byteLength(Descriptor.body)

\* C3 witness: a pretty-printed structured payload holding multi-byte
\* characters: more bytes than characters.
C3_Witness ==
  /\ Executed /\ response.kind = "returned"
  /\ transport.kind = "resolved" /\ transport.response.data.t = "object"
  /\ Descriptor.bodySize > Len(Descriptor.body)
  /\ Len(Descriptor.body) > 0

\* C4: when no response was received the descriptor has success=false,
\* status=0, no headers, an empty body of size 0, an error string, and
\* statusText "No Response" (dispatched, unanswered), "Request Error" (not
\* dispatched) or "Unknown Error" (unclassified).
C4_NoResponseShape ==
  (Executed /\ transport.kind = "rejected" /\ ~transport.error.response.has) =>
    LET e == transport.error
    IN  /\ response.kind = "returned"
        /\ Descriptor.success = FALSE
        /\ Descriptor.status = 0
        /\ Descriptor.headers = EmptyMap
        /\ Descriptor.body = <<>>
        /\ Descriptor.bodySize = 0
        /\ Descriptor.error.has /\ Descriptor.error.v # <<>>
        /\ Descriptor.statusText =
             IF e.isAxiosError /\ e.request THEN S_NoResponse
             ELSE IF e.isAxiosError THEN S_RequestError
             ELSE S_UnknownError

\* C4 witness: a request that was dispatched and never answered.
C4_Witness ==
  /\ Executed
  /\ transport.kind = "rejected" /\ ~transport.error.response.has
  /\ transport.error.isAxiosError /\ transport.error.request
  /\ Descriptor.statusText = S_NoResponse

Dispatched == pc # "idle" /\ execCalls > 0
PlainGet ==
  /\ Dispatched
  /\ config.method = M_GET
  /\ ~config.body.has
  /\ (~config.auth.has \/ config.auth.v.type = "none")
HasAuthorizationHeader(h) == \E k \in DOMAIN h : toLowerCase(k) = S_authorization
DescriptorHeaders == IF config.headers.has THEN config.headers.v ELSE EmptyMap

\* C5 as stated: for method GET, no body and no auth, the outgoing request
\* carries no payload and no Authorization header.
C5_PlainGetCarriesNoAuthorization ==
  PlainGet =>
    /\ ~axiosConfig.data.has
    /\ ~HasAuthorizationHeader(axiosConfig.headers)

\* C5 as amended: for method GET, no body and no auth, the outgoing request
\* carries no payload and no credentials and its headers are exactly the
\* descriptor's headers: nothing is added, and an Authorization header is
\* carried only when the descriptor's own headers hold one.
C5_PlainGetAddsNothing ==
  PlainGet =>
    /\ ~axiosConfig.data.has
    /\ ~axiosConfig.auth.has
    /\ axiosConfig.headers = DescriptorHeaders

\* C5 witness: a plain GET whose own headers hold Authorization was dispatched.
C5_Witness ==
  /\ PlainGet
  /\ HasAuthorizationHeader(DescriptorHeaders)
  /\ axiosConfig.headers = DescriptorHeaders

IsCurlCall == call.name = T_execute_curl
IsHttpCall == call.name = T_http_request
ValidationFails ==
  \/ IsCurlCall /\ ExecuteCurlInputSchema(call.args) # <<>>
  \/ IsHttpCall /\ HttpRequestInputSchema(call.args) # <<>>
UnknownTool == ~IsCurlCall /\ ~IsHttpCall
ParserRaises ==
  /\ IsCurlCall /\ ~ValidationFails
  /\ parseCurlCommand(call.args.curlCommand.s).kind = "threw"

\* C6: every CallTool invocation returns a result; when validation fails,
\* the tool is unknown or the parser raises, the result is flagged isError,
\* has success:false and an error string, and the executor was not invoked.
C6_ToolErrorsAreResults ==
  /\ pc = "done" => toolResult # None
  /\ (pc # "idle" /\ (ValidationFails \/ UnknownTool \/ ParserRaises)) =>
       /\ pc = "done"
       /\ toolResult.isError
       /\ toolResult.success = FALSE
       /\ toolResult.error.has /\ toolResult.error.v # <<>>
       /\ execCalls = 0
       /\ axiosConfig = None

\* C6 witness: the parser raised MissingUrl and the handler answered with an
\* error result without dispatching anything.
C6_Witness ==
  /\ pc = "done"
  /\ ParserRaises /\ parsed = Threw(E_MissingUrl)
  /\ toolResult.isError /\ toolResult.error = Some(E_MissingUrl)
  /\ execCalls = 0

\* C7: an http_request input with a valid url is accepted whether or not
\* method, timeout and followRedirects are given, and is executed with each
\* omitted field at its default (GET, 30000, true) and each supplied field
\* unchanged.
C7_DefaultsApplied ==
  LET a == call.args
  IN  (/\ pc # "idle" /\ IsHttpCall
       /\ a.url.t = "string" /\ IsUrl(a.url.s)
       /\ (a.method.has => a.method.v \in HttpMethods)) =>
        /\ execCalls = 1
        /\ config.url = a.url.s
        /\ config.method = IF a.method.has THEN a.method.v ELSE M_GET
        /\ config.timeout = IF a.timeout.has THEN a.timeout.v ELSE 30000
        /\ config.followRedirects = IF a.followRedirects.has THEN a.followRedirects.v ELSE TRUE
        /\ config.headers = a.headers /\ config.body = a.body /\ config.auth = a.auth

---------------------------------------------------------------------------
(* Claims about the outgoing request built by executeRequest, checked under
   Spec *)

OutgoingContentType ==
  IF S_ContentType \in DOMAIN axiosConfig.headers
  THEN Some(axiosConfig.headers[S_ContentType]) ELSE Absent
DescriptorContentType ==
  IF S_ContentType \in DOMAIN DescriptorHeaders
  THEN Some(DescriptorHeaders[S_ContentType]) ELSE Absent

\* C14 as stated: the payload is attached if and only if the descriptor has
\* a body and the method is POST, PUT or PATCH; Content-Type is set to
\* application/json exactly when a payload is attached and the descriptor has
\* no header with the literal key "Content-Type"; an existing Content-Type
\* value is never changed and none is added when no payload is attached.
C14_PayloadAndContentType ==
  Dispatched =>
    /\ axiosConfig.data.has <=> (config.body.has /\ config.method \in BodyMethods)
    /\ axiosConfig.data.has => axiosConfig.data = config.body
    /\ OutgoingContentType =
         IF axiosConfig.data.has /\ ~DescriptorContentType.has
         THEN Some(S_ApplicationJson)
         ELSE DescriptorContentType

\* C14 as amended: the payload is attached if and only if the descriptor has
\* a non-empty body and the method is POST, PUT or PATCH; Content-Type is set
\* to application/json exactly when a payload is attached and the descriptor
\* has no non-empty header with the literal key "Content-Type"; a non-empty
\* Content-Type value is never changed and no Content-Type is added when no
\* payload is attached.
C14_NonEmptyPayloadAndContentType ==
  Dispatched =>
    /\ axiosConfig.data.has <=> (Truthy(config.body) /\ config.method \in BodyMethods)
    /\ axiosConfig.data.has => axiosConfig.data = config.body
    /\ OutgoingContentType =
         IF axiosConfig.data.has /\ ~Truthy(DescriptorContentType)
         THEN Some(S_ApplicationJson)
         ELSE DescriptorContentType

\* C14 witness: a payload was attached for a descriptor whose only header is
\* a lower-case content-type, and the literal Content-Type was added.
C14_Witness ==
  /\ Dispatched
  /\ axiosConfig.data.has /\ axiosConfig.data.v # <<>>
  /\ config.method \in BodyMethods
  /\ \E k \in DOMAIN DescriptorHeaders : k # S_ContentType /\ toLowerCase(k) = toLowerCase(S_ContentType)
  /\ ~DescriptorContentType.has
  /\ OutgoingContentType = Some(S_ApplicationJson)

AuthIsBasic ==
  /\ config.auth.has /\ config.auth.v.type = "basic"
  /\ Truthy(config.auth.v.username) /\ Truthy(config.auth.v.password)
AuthIsBearer ==
  /\ config.auth.has /\ config.auth.v.type = "bearer"
  /\ Truthy(config.auth.v.token)
WithContentTypeDefault ==
  IF axiosConfig.data.has /\ ~Truthy(DescriptorContentType)
  THEN Put(DescriptorHeaders, S_ContentType, S_ApplicationJson)
  ELSE DescriptorHeaders

\* C15: credentials are supplied if and only if auth is basic with a
\* non-empty username and password; the Authorization header is set to
\* "Bearer <token>", over any Authorization header of the descriptor and on
\* top of the Content-Type default, if and only if auth is bearer with a
\* non-empty token; in every other case the outgoing headers are the
\* descriptor's headers plus the Content-Type default and no credentials are
\* supplied.
C15_AuthInjection ==
  Dispatched =>
    /\ axiosConfig.auth.has <=> AuthIsBasic
    /\ AuthIsBasic =>
         axiosConfig.auth.v = [username |-> config.auth.v.username.v,
                               password |-> config.auth.v.password.v]
    /\ axiosConfig.headers =
         IF AuthIsBearer
         THEN Put(WithContentTypeDefault, S_Authorization, S_Bearer_sp \o config.auth.v.token.v)
         ELSE WithContentTypeDefault

\* C15 witness: a bearer token replaced the descriptor's own Authorization
\* header on a request that also got the Content-Type default.
C15_Witness ==
  /\ Dispatched
  /\ AuthIsBearer
  /\ S_Authorization \in DOMAIN DescriptorHeaders
  /\ axiosConfig.headers[S_Authorization] # DescriptorHeaders[S_Authorization]
  /\ axiosConfig.headers[S_Authorization] = S_Bearer_sp \o config.auth.v.token.v
  /\ axiosConfig.data.has
  /\ OutgoingContentType = Some(S_ApplicationJson)

\* C15 witness for the parser's bare `-u user`: basic auth with an empty
\* password supplies no credentials.
C15_WitnessBareUser ==
  /\ Dispatched /\ IsCurlCall
  /\ config.auth.has /\ config.auth.v.type = "basic"
  /\ config.auth.v.password = Some(<<>>)
  /\ ~axiosConfig.auth.has

---------------------------------------------------------------------------
(* Claims about termination of executeRequest, checked under SpecLive *)

TimedOut == pc = "done" /\ transport.kind = "timeout"

\* C13: every call of executeRequest eventually returns, for every timeout
\* of 0 or more, even if the server never answers; and when the timer
\* expires the call resolves to the no-response failure shape (status 0,
\* statusText "No Response") instead of throwing.
C13_EventuallyReturns ==
  /\ (pc = "awaiting") ~> (pc = "done" /\ response.kind = "returned")
  /\ [](TimedOut =>
          /\ response.kind = "returned"
          /\ Descriptor.success = FALSE
          /\ Descriptor.status = 0
          /\ Descriptor.statusText = S_NoResponse)

---------------------------------------------------------------------------
(* Claims about parseCurlCommand, checked under SpecParse *)

Command == call.args.curlCommand.s
Trimmed == trim(Command)
ParseDone == pc = "done" /\ parsed # None
ParseReturned == ParseDone /\ parsed.kind = "returned"

\* Positions of Trimmed where the URL pattern https?://[^\s"'$]+ stands.
UrlPatternHits == {p \in 1..Len(Trimmed) : UrlPatternAt(Trimmed, p).found}

\* C8: for a command that begins with "curl", parseCurlCommand fails with
\* MissingUrl exactly when the command holds no substring matching the URL
\* pattern, and otherwise returns the first such substring as the url,
\* wherever it stands (also right after a quote).
C8_MissingUrlIffNoUrlPattern ==
  (ParseDone /\ startsWith(toLowerCase(Trimmed), S_curl)) =>
    /\ (parsed = Threw(E_MissingUrl)) <=> (UrlPatternHits = {})
    /\ UrlPatternHits # {} =>
         /\ parsed.kind = "returned"
         /\ parsed.value.url = UrlPatternAt(Trimmed, MinOf(UrlPatternHits)).value

ShellQuotedArg(s, k) ==
  IF k < 1 \/ k > Len(s) \/ s[k] \notin Quotes THEN NoMatch
  ELSE LET closers == {c \in (k + 2)..Len(s) : s[c] = s[k]}
       IN  IF closers = {} \/ \E c \in (k + 1)..(MinOf(closers) - 1) : s[c] = s[k]
           THEN NoMatch
           ELSE Match(SubSeq(s, k + 1, MinOf(closers) - 1), MinOf(closers))

\* The token of an "Authorization: Bearer <t>" header given by the -H or
\* --header flag at position i.
BearerHeaderAt(s, i) ==
  LET arg == ShellQuotedArg(s, AfterFlag(s, i, {<<"h">>, <<"h","e","a","d","e","r">>}))
      colonIndex == indexOf(arg.value, ":")
      key == trim(substring(arg.value, 0, colonIndex))
      value == trim(substringFrom(arg.value, colonIndex + 1))
  IN  IF arg.found /\ colonIndex > 0 /\ toLowerCase(key) = S_authorization
         /\ startsWith(toLowerCase(value), S_bearer_sp)
      THEN Match(substringFrom(value, 7), arg.end) ELSE NoMatch

BearerHeaderHits == {i \in 1..Len(Trimmed) : BearerHeaderAt(Trimmed, i).found}

\* C10: with a -u/--user flag present, auth is the basic AuthSpec built from
\* that flag, whatever Authorization header the command has and in whatever
\* order; with no -u flag and an "Authorization: Bearer <t>" header, auth is
\* the bearer AuthSpec with token t.
C10_BasicOverBearer ==
  ParseReturned =>
    LET user == authRegex(Trimmed)
        creds == user.value
        colon == indexOf(creds, ":")
    IN  /\ user.found =>
             parsed.value.auth =
               Some(IF colon > 0
                    THEN BasicAuth(SubSeq(creds, 1, colon), SubSeq(creds, colon + 2, Len(creds)))
                    ELSE BasicAuth(creds, <<>>))
        /\ (~user.found /\ BearerHeaderHits # {}) =>
             parsed.value.auth =
               Some(BearerAuth(BearerHeaderAt(Trimmed, MaxOf(BearerHeaderHits)).value))

\* C16: every descriptor parseCurlCommand returns has a method that is one
\* of GET, POST, PUT, PATCH, DELETE, HEAD, OPTIONS, also when the -X/--request
\* flag names some other token.
C16_MethodInEnum ==
  ParseReturned => parsed.value.method \in HttpMethods

---------------------------------------------------------------------------
(* Claims about the HTTP facade, checked under SpecFacade *)

IsCurlPost == call.path = P_execute_curl
IsHttpPost == call.path = P_http_request
PostsCommand == IsCurlPost /\ call.body.curlCommand.t = "string"

\* What the execute_curl tool does with the posted command and with the
\* transport outcome the facade met.
ToolParse == parseCurlCommand(call.body.curlCommand.s)
ToolRequest == buildAxiosConfig(ToolParse.value)
ToolDescriptor ==
  IF transport.kind = "resolved" THEN responseResult(transport.response)
  ELSE catchBlock(transport.error).value

RequestFields(a) ==
  [url |-> a.url, method |-> a.method, headers |-> a.headers, body |-> a.data,
   credentials |-> a.auth]

\* C11: for every curl command string and every transport outcome,
\* POST /api/execute_curl rejects exactly the commands the execute_curl tool
\* rejects, builds the same outgoing request (url, method, headers, body,
\* credentials) and returns the same descriptor fields (success, status,
\* statusText, headers, body, bodySize, error).
C11_FacadeEquivalentToTool ==
  (pc # "idle" /\ PostsCommand) =>
    /\ (execCalls = 0) <=> (ToolParse.kind = "threw")
    /\ (execCalls > 0 /\ ToolParse.kind = "returned") =>
         RequestFields(axiosConfig) = RequestFields(ToolRequest)
    /\ (pc = "done" /\ execCalls > 0 /\ ToolParse.kind = "returned") =>
         toolResult.json = [ToolDescriptor EXCEPT !.body = DString(@)]

MissingRequiredField ==
  \/ IsCurlPost /\ call.body.curlCommand.t = "missing"
  \/ IsHttpPost /\ call.body.url.t = "missing"
InternalError == IsCurlPost /\ call.body.curlCommand.t = "number"
SaysSuccessFalse(json) == "success" \in DOMAIN json /\ json.success = FALSE

\* C12: on both endpoints a request missing its required field is answered
\* with status 400 and an unexpected internal error with status 500, and in
\* both cases the JSON body contains success:false.
C12_FacadeErrorReplies ==
  pc = "done" =>
    /\ MissingRequiredField =>
         toolResult.code = 400 /\ SaysSuccessFalse(toolResult.json)
    /\ InternalError =>
         toolResult.code = 500 /\ SaysSuccessFalse(toolResult.json)
====
